---- MODULE Spec2Model ----
(***************************************************************************)
(* Composable specification predicates and the product filter of           *)
(* "Solid Principles/open_closed_principle.py".                            *)
(*                                                                         *)
(* Python objects live in heaps: `objects` holds the items, `specs` holds  *)
(* the Specification instances, and a reference is an index into its      *)
(* heap.  A predicate evaluation returns "True", "False" or the name of    *)
(* the exception it raises, together with the log of the is_satisfied      *)
(* calls it made.  A call of ProductFilter.filter creates a generator; a   *)
(* generator advances one iteration of its for loop at a time.             *)
(***************************************************************************)
EXTENDS Integers, Sequences, FiniteSets, TLC

VARIABLES
    objects,      \* heap of items: each a record of the attributes it has
    collections,  \* the lists handed to filter: sequences of references into objects
    specs,        \* heap of Specification instances
    gens,         \* generators returned by ProductFilter.filter
    lastCall,     \* the caller's most recent direct call on a specification
    pc,           \* the algebra script's position and variables (SpecAssoc only)
    journal,      \* the Journal of single_responsibility_principle.py
    lsp,          \* the rectangle of liskov_substitution_principle.py and its last report
    html,         \* the elements and builders of builder.py
    machine       \* class HotDrinkMachine of abstract_factories.py and its instances

vars ==
    <<objects, collections, specs, gens, lastCall, pc, journal, lsp, html, machine>>

\* the variables of the specification and filter subsystem, and the others
ocp == <<objects, collections, specs, gens, lastCall, pc>>
others == <<journal, lsp, html, machine>>

(***************************************************************************)
(* Bounds of the model.                                                    *)
(***************************************************************************)
MaxSpecs == 3       \* Specification instances allocated in SpecPred
MaxChildren == 2    \* arguments of a direct AndSpecification(...) call
MaxLen == 2         \* length of the collection handed to filter
MaxGens == 2        \* generators created by filter

(***************************************************************************)
(* Enum members.  Members of different enums are never equal, even when    *)
(* their values coincide, so a member carries its enum.                    *)
(***************************************************************************)
Member(e, n, v) == [enum |-> e, name |-> n, value |-> v]

RED == Member("Color", "RED", 1)
GREEN == Member("Color", "GREEN", 2)
BLUE == Member("Color", "BLUE", 3)
Color == {RED, GREEN, BLUE}

SMALL == Member("Size", "SMALL", 1)
MEDIUM == Member("Size", "MEDIUM", 2)
LARGE == Member("Size", "LARGE", 3)
Size == {SMALL, MEDIUM, LARGE}

(***************************************************************************)
(* Items.  Product(name, color, size) has the three attributes; the filter *)
(* accepts any object, so the pool also holds objects that lack one.       *)
(***************************************************************************)
Product(name, color, size) == [name |-> name, color |-> color, size |-> size]

apple == Product("Apple", RED, SMALL)
tree == Product("Tree", GREEN, LARGE)
room == Product("Room", BLUE, LARGE)
noColor == [name |-> "Crate", size |-> LARGE]
noSize == [name |-> "Paint", color |-> BLUE]

ItemPool == <<apple, tree, room, noColor, noSize>>

HasAttr(item, a) == a \in DOMAIN item

(***************************************************************************)
(* Specification instances.                                                *)
(***************************************************************************)
ColorSpecification(color) == [kind |-> "ColorSpecification", color |-> color]
SizeSpecification(size) == [kind |-> "SizeSpecification", size |-> size]
AndSpecification(specifications) ==
    [kind |-> "AndSpecification", specifications |-> specifications]

IsAnd(h, s) == h[s].kind = "AndSpecification"

PyBool(b) == IF b THEN "True" ELSE "False"
AttributeError == "AttributeError"

(***************************************************************************)
(* is_satisfied(h, s, item, d): the call specs[s].is_satisfied(item) at    *)
(* call depth d.  val is the value returned or the exception raised; log   *)
(* lists every is_satisfied call made, in the order the calls start.       *)
(***************************************************************************)
RECURSIVE is_satisfied(_, _, _, _)
RECURSIVE all(_, _, _, _, _)
RECURSIVE any(_, _, _, _, _)
RECURSIVE all_of_list(_, _, _, _, _)
RECURSIVE all_nonempty(_, _, _, _, _)

\* any(...) in the place of all(...): one satisfied child is enough
any(h, specifications, i, item, d) ==
    IF i > Len(specifications)
    THEN [val |-> "False", log |-> <<>>]
    ELSE LET r == is_satisfied(h, specifications[i], item, d)
         IN  IF r.val = "False"
             THEN LET rest == any(h, specifications, i + 1, item, d)
                  IN  [val |-> rest.val, log |-> r.log \o rest.log]
             ELSE [val |-> r.val, log |-> r.log]

\* all([...]) over a list: every child is evaluated before all() looks at one
all_of_list(h, specifications, i, item, d) ==
    IF i > Len(specifications)
    THEN [val |-> "True", log |-> <<>>]
    ELSE LET r == is_satisfied(h, specifications[i], item, d)
         IN  IF r.val \in {"True", "False"}
             THEN LET rest == all_of_list(h, specifications, i + 1, item, d)
                  IN  [val |-> IF r.val = "True" \/ rest.val \notin {"True", "False"}
                               THEN rest.val ELSE "False",
                       log |-> r.log \o rest.log]
             ELSE [val |-> r.val, log |-> r.log]

\* bool(specifications) and all(...): a conjunction without children is False
all_nonempty(h, specifications, i, item, d) ==
    IF Len(specifications) = 0
    THEN [val |-> "False", log |-> <<>>]
    ELSE IF i > Len(specifications)
    THEN [val |-> "True", log |-> <<>>]
    ELSE LET r == is_satisfied(h, specifications[i], item, d)
         IN  IF r.val = "True"
             THEN LET rest == all_nonempty(h, specifications, i + 1, item, d)
                  IN  [val |-> rest.val, log |-> r.log \o rest.log]
             ELSE [val |-> r.val, log |-> r.log]

\* all(spec.is_satisfied(item) for spec in specifications), from child i on
all(h, specifications, i, item, d) ==
    IF i > Len(specifications)
    THEN [val |-> "True", log |-> <<>>]
    ELSE LET r == is_satisfied(h, specifications[i], item, d)
         IN  IF r.val = "True"
             THEN LET rest == all(h, specifications, i + 1, item, d)
                  IN  [val |-> rest.val, log |-> r.log \o rest.log]
             ELSE [val |-> r.val, log |-> r.log]

\* getattr(item, name, None) in the place of item.name: a missing attribute
\* compares unequal
is_satisfied_getattr(h, s, item, d) ==
    LET self == h[s]
        entry(v) == [spec |-> s, depth |-> d, val |-> v]
    IN  CASE self.kind = "ColorSpecification" ->
               LET v == PyBool(HasAttr(item, "color") /\ item.color = self.color)
               IN  [val |-> v, log |-> <<entry(v)>>]
          [] self.kind = "SizeSpecification" ->
               LET v == PyBool(HasAttr(item, "size") /\ item.size = self.size)
               IN  [val |-> v, log |-> <<entry(v)>>]
          [] self.kind = "AndSpecification" ->
               LET r == all(h, self.specifications, 1, item, d + 1)
               IN  [val |-> r.val, log |-> <<entry(r.val)>> \o r.log]

is_satisfied(h, s, item, d) ==
    LET self == h[s]
        entry(v) == [spec |-> s, depth |-> d, val |-> v]
    IN  CASE self.kind = "ColorSpecification" ->
               LET v == IF HasAttr(item, "color")
                        THEN PyBool(item.color = self.color)
                        ELSE AttributeError
               IN  [val |-> v, log |-> <<entry(v)>>]
          [] self.kind = "SizeSpecification" ->
               LET v == IF HasAttr(item, "size")
                        THEN PyBool(item.size = self.size)
                        ELSE AttributeError
               IN  [val |-> v, log |-> <<entry(v)>>]
          [] self.kind = "AndSpecification" ->
               LET r == all(h, self.specifications, 1, item, d + 1)
               IN  [val |-> r.val, log |-> <<entry(r.val)>> \o r.log]

Sat(s, x) == is_satisfied(specs, s, objects[x], 0).val

(***************************************************************************)
(* Records of the caller's direct calls.                                   *)
(***************************************************************************)
NoCall ==
    [op |-> "none", self |-> 0, other |-> 0, item |-> 0,
     val |-> "", log |-> <<>>, new |-> 0]

Constructed(op, a, b, n) ==
    [op |-> op, self |-> a, other |-> b, item |-> 0,
     val |-> "", log |-> <<>>, new |-> n]

Evaluated(s, x, r) ==
    [op |-> "is_satisfied", self |-> s, other |-> 0, item |-> x,
     val |-> r.val, log |-> r.log, new |-> 0]

\* the algebra script: where it stands and the references its variables hold
NoScript ==
    [at |-> "none", A |-> 0, B |-> 0, C |-> 0,
     AB |-> 0, left |-> 0, BC |-> 0, right |-> 0]

SpecIds == 1..Len(specs)
ObjectIds == 1..Len(objects)

(***************************************************************************)
(* The other subsystems as they stand when their modules are loaded and    *)
(* nothing has been called.                                                *)
(***************************************************************************)
\* Journal(): no entries, count 0
NewJournal == [entries |-> <<>>, count |-> 0]

\* a Python number: an int n, or the float n + 0.5
Whole(n) == [floor |-> n, half |-> FALSE]
AndAHalf(n) == [floor |-> n, half |-> TRUE]

\* no rectangle constructed, nothing assigned, use_rectangle not called
NoRectangle == [cls |-> "none", _width |-> 0, _height |-> 0]
NoReport ==
    [cls |-> "none", original_width |-> 0, expected_area |-> 0,
     actual_area |-> 0, status |-> "none"]
NoShape == [rc |-> NoRectangle, op |-> "none", value |-> Whole(0), report |-> NoReport]

\* HtmlElement(name, text): a new element without children
HtmlElement(name, text) == [name |-> name, text |-> text, elements |-> <<>>]

\* class HtmlBuilder: __root = HtmlElement(), the first element on the heap
HtmlLoaded ==
    [elements |-> <<HtmlElement("", "")>>, builders |-> <<>>, children |-> 0,
     last |-> [op |-> "none", self |-> 0]]

\* class HotDrinkMachine: factories = [], initialized = False; no instance, no
\* factory object made, make_drink not called
NoDrinkCall ==
    [op |-> "none", self |-> 0, menu |-> <<>>, top |-> 0, idx |-> <<>>,
     amount |-> <<>>, result |-> "none"]
MachineLoaded ==
    [factories |-> <<>>, initialized |-> FALSE, instances |-> <<>>,
     made |-> 0, last |-> NoDrinkCall]

OthersIdle ==
    /\ journal = NewJournal
    /\ lsp = NoShape
    /\ html = HtmlLoaded
    /\ machine = MachineLoaded

OcpIdle ==
    /\ objects = <<>>
    /\ collections = <<>>
    /\ specs = <<>>
    /\ gens = <<>>
    /\ lastCall = NoCall
    /\ pc = NoScript

TuplesUpTo(S, n) == UNION {[1..k -> S] : k \in 0..n}

(***************************************************************************)
(* Operations on specifications.                                           *)
(***************************************************************************)
\* ColorSpecification(color)
NewColorSpecification(color) ==
    /\ Len(specs) < MaxSpecs
    /\ specs' = Append(specs, ColorSpecification(color))
    /\ lastCall' = Constructed("ColorSpecification", 0, 0, Len(specs) + 1)
    /\ UNCHANGED <<objects, collections, gens, pc, others>>

\* SizeSpecification(size)
NewSizeSpecification(size) ==
    /\ Len(specs) < MaxSpecs
    /\ specs' = Append(specs, SizeSpecification(size))
    /\ lastCall' = Constructed("SizeSpecification", 0, 0, Len(specs) + 1)
    /\ UNCHANGED <<objects, collections, gens, pc, others>>

\* AndSpecification(*specifications)
NewAndSpecification(specifications) ==
    /\ Len(specs) < MaxSpecs
    /\ specs' = Append(specs, AndSpecification(specifications))
    /\ lastCall' = Constructed("AndSpecification", 0, 0, Len(specs) + 1)
    /\ UNCHANGED <<objects, collections, gens, pc, others>>

\* a flattening & that keeps only the first child of a conjunction on its right
AndFlattenFirst(self, other) ==
    /\ specs' = Append(specs,
                  IF IsAnd(specs, other) /\ Len(specs[other].specifications) > 0
                  THEN AndSpecification(<<self, specs[other].specifications[1]>>)
                  ELSE AndSpecification(<<self, other>>))
    /\ lastCall' = Constructed("__and__", self, other, Len(specs) + 1)
    /\ UNCHANGED <<objects, collections, gens, others>>

\* a flattening & that extends the child list of a conjunction on its left in
\* place and returns that conjunction
AndInPlace(self, other) ==
    /\ IF IsAnd(specs, self)
       THEN /\ specs' = [specs EXCEPT ![self].specifications = Append(@, other)]
            /\ lastCall' = Constructed("__and__", self, other, self)
       ELSE /\ specs' = Append(specs, AndSpecification(<<self, other>>))
            /\ lastCall' = Constructed("__and__", self, other, Len(specs) + 1)
    /\ UNCHANGED <<objects, collections, gens, others>>

\* self & other
And(self, other) ==
    /\ specs' = Append(specs, AndSpecification(<<self, other>>))
    /\ lastCall' = Constructed("__and__", self, other, Len(specs) + 1)
    /\ UNCHANGED <<objects, collections, gens, others>>

\* specs[s].is_satisfied(objects[x]), called by the caller directly
IsSatisfied(s, x) ==
    /\ lastCall' = Evaluated(s, x, is_satisfied(specs, s, objects[x], 0))
    /\ UNCHANGED <<objects, collections, specs, gens, pc, others>>

(***************************************************************************)
(* SpecPred: a caller that builds specifications and evaluates them.       *)
(***************************************************************************)
ArgColors == {BLUE}
ArgSizes == {LARGE}

InitPred ==
    /\ objects = ItemPool
    /\ collections = <<>>
    /\ specs = <<>>
    /\ gens = <<>>
    /\ lastCall = NoCall
    /\ pc = NoScript
    /\ OthersIdle

NextPred ==
    \/ \E c \in ArgColors : NewColorSpecification(c)
    \/ \E z \in ArgSizes : NewSizeSpecification(z)
    \/ \E ch \in TuplesUpTo(SpecIds, MaxChildren) : NewAndSpecification(ch)
    \/ \E a, b \in SpecIds : Len(specs) < MaxSpecs /\ And(a, b) /\ UNCHANGED pc
    \/ \E s \in SpecIds, x \in ObjectIds : IsSatisfied(s, x)

SpecPred == InitPred /\ [][NextPred]_vars

(***************************************************************************)
(* ProductFilter.filter.  Calling it runs no code of the body: it returns  *)
(* a generator.  pos counts the items the for loop has taken from the      *)
(* list, out lists the references yielded so far, and state says whether   *)
(* the generator can still run ("suspended"), has returned ("done") or has *)
(* let an exception out to its caller ("raised", named by error).          *)
(***************************************************************************)
Generator(items, spec) ==
    [items |-> items, spec |-> spec, pos |-> 0, out |-> <<>>,
     state |-> "suspended", error |-> "None"]

\* a filter that keeps one cursor per list on the engine: a new traversal goes
\* on where the furthest earlier one stands
FilterSharedCursor(items, spec) ==
    LET earlier == {gens[g].pos : g \in {k \in 1..Len(gens) : gens[k].items = items}}
        cursor == IF earlier = {} THEN 0
                  ELSE CHOOSE m \in earlier : \A n \in earlier : n <= m
    IN  /\ Len(gens) < MaxGens
        /\ gens' = Append(gens, [Generator(items, spec) EXCEPT !.pos = cursor])
        /\ UNCHANGED <<objects, collections, specs, lastCall, pc, others>>

\* product_filter.filter(collections[items], specs[spec])
Filter(items, spec) ==
    /\ Len(gens) < MaxGens
    /\ gens' = Append(gens, Generator(items, spec))
    /\ UNCHANGED <<objects, collections, specs, lastCall, pc, others>>

\* a loop that yields an item only the first time it matches
LoopBodyDedup(G, list, h, heap) ==
    IF G.pos >= Len(list)
    THEN [G EXCEPT !.state = "done"]
    ELSE LET item == list[G.pos + 1]
             r == is_satisfied(h, G.spec, heap[item], 0).val
         IN  CASE r = "True" /\ \A i \in 1..Len(G.out) : G.out[i] # item ->
                    [G EXCEPT !.pos = @ + 1, !.out = Append(@, item)]
               [] r \in {"True", "False"} ->
                    [G EXCEPT !.pos = @ + 1]
               [] OTHER ->
                    [G EXCEPT !.pos = @ + 1, !.state = "raised", !.error = r]

\* a loop that hands the matches over newest first
LoopBodyNewestFirst(G, list, h, heap) ==
    IF G.pos >= Len(list)
    THEN [G EXCEPT !.state = "done"]
    ELSE LET item == list[G.pos + 1]
             r == is_satisfied(h, G.spec, heap[item], 0).val
         IN  CASE r = "True" ->
                    [G EXCEPT !.pos = @ + 1, !.out = <<item>> \o @]
               [] r = "False" ->
                    [G EXCEPT !.pos = @ + 1]
               [] OTHER ->
                    [G EXCEPT !.pos = @ + 1, !.state = "raised", !.error = r]

\* a loop that wraps the test in try/except and skips the item on an exception
LoopBodySwallow(G, list, h, heap) ==
    IF G.pos >= Len(list)
    THEN [G EXCEPT !.state = "done"]
    ELSE LET item == list[G.pos + 1]
             r == is_satisfied(h, G.spec, heap[item], 0).val
         IN  CASE r = "True" ->
                    [G EXCEPT !.pos = @ + 1, !.out = Append(@, item)]
               [] OTHER ->
                    [G EXCEPT !.pos = @ + 1]

\* a loop that looks at the class of the specification and lets only attribute
\* specifications select
LoopBodyLeafOnly(G, list, h, heap) ==
    IF G.pos >= Len(list)
    THEN [G EXCEPT !.state = "done"]
    ELSE LET item == list[G.pos + 1]
             r == IF IsAnd(h, G.spec) THEN "False"
                  ELSE is_satisfied(h, G.spec, heap[item], 0).val
         IN  CASE r = "True" ->
                    [G EXCEPT !.pos = @ + 1, !.out = Append(@, item)]
               [] r = "False" ->
                    [G EXCEPT !.pos = @ + 1]
               [] OTHER ->
                    [G EXCEPT !.pos = @ + 1, !.state = "raised", !.error = r]

\* a loop over an iterator that starts again when it runs out
LoopBodyRewind(G, list, h, heap) ==
    IF G.pos >= Len(list)
    THEN IF list = <<>> THEN [G EXCEPT !.state = "done"] ELSE [G EXCEPT !.pos = 0]
    ELSE LET item == list[G.pos + 1]
             r == is_satisfied(h, G.spec, heap[item], 0).val
         IN  CASE r = "True" ->
                    [G EXCEPT !.pos = @ + 1, !.out = Append(@, item)]
               [] r = "False" ->
                    [G EXCEPT !.pos = @ + 1]
               [] OTHER ->
                    [G EXCEPT !.pos = @ + 1, !.state = "raised", !.error = r]

\* a loop that returns after its first match
LoopBodyFirstMatch(G, list, h, heap) ==
    IF G.pos >= Len(list) \/ G.out # <<>>
    THEN [G EXCEPT !.state = "done"]
    ELSE LET item == list[G.pos + 1]
             r == is_satisfied(h, G.spec, heap[item], 0).val
         IN  CASE r = "True" ->
                    [G EXCEPT !.pos = @ + 1, !.out = Append(@, item)]
               [] r = "False" ->
                    [G EXCEPT !.pos = @ + 1]
               [] OTHER ->
                    [G EXCEPT !.pos = @ + 1, !.state = "raised", !.error = r]

\* one iteration of "for item in items: if spec.is_satisfied(item): yield item"
LoopBody(G, list, h, heap) ==
    IF G.pos >= Len(list)
    THEN [G EXCEPT !.state = "done"]
    ELSE LET item == list[G.pos + 1]
             r == is_satisfied(h, G.spec, heap[item], 0).val
         IN  CASE r = "True" ->
                    [G EXCEPT !.pos = @ + 1, !.out = Append(@, item)]
               [] r = "False" ->
                    [G EXCEPT !.pos = @ + 1]
               [] OTHER ->
                    [G EXCEPT !.pos = @ + 1, !.state = "raised", !.error = r]

\* a loop that yields copy.copy(item): every match is a new object
FilterLoopCopy(g) ==
    LET G == LoopBody(gens[g], collections[gens[g].items], specs, objects)
        yielded == Len(G.out) > Len(gens[g].out)
    IN  /\ gens[g].state = "suspended"
        /\ IF yielded
           THEN /\ objects' = Append(objects, objects[G.out[Len(G.out)]])
                /\ gens' = [gens EXCEPT
                     ![g] = [G EXCEPT !.out = Append(gens[g].out, Len(objects) + 1)]]
           ELSE /\ objects' = objects
                /\ gens' = [gens EXCEPT ![g] = G]
        /\ UNCHANGED <<collections, specs, lastCall, pc, others>>

\* a filter whose traversals of one list draw from one iterator kept on the
\* engine: an item taken by one is gone for the others in flight
FilterLoopOneIterator(g) ==
    /\ gens[g].state = "suspended"
    /\ gens' = [k \in 1..Len(gens) |->
                  IF k = g
                  THEN LoopBody(gens[g], collections[gens[g].items], specs, objects)
                  ELSE IF /\ gens[k].items = gens[g].items
                          /\ gens[k].state = "suspended"
                          /\ gens[k].pos < Len(collections[gens[k].items])
                       THEN [gens[k] EXCEPT !.pos = @ + 1]
                       ELSE gens[k]]
    /\ UNCHANGED <<objects, collections, specs, lastCall, pc, others>>

\* the consumer resumes generator g
FilterLoop(g) ==
    /\ gens[g].state = "suspended"
    /\ gens' = [gens EXCEPT
                  ![g] = LoopBody(@, collections[@.items], specs, objects)]
    /\ UNCHANGED <<objects, collections, specs, lastCall, pc, others>>

(***************************************************************************)
(* SpecFilter: the demonstration's three specifications applied to a       *)
(* collection drawn from the pool; the consumers of the generators run in  *)
(* any interleaving and may stop anywhere.                                 *)
(***************************************************************************)
FilterPool == <<apple, tree, room, noColor>>

\* 1: green_spec, 2: large_spec, 3: ColorSpecification(Color.BLUE),
\* 4: large_blue_spec = large_spec & ColorSpecification(Color.BLUE)
DemoSpecs ==
    <<ColorSpecification(GREEN), SizeSpecification(LARGE),
      ColorSpecification(BLUE), AndSpecification(<<2, 3>>)>>

\* the specifications the demonstration hands to filter
FilterArgs == {1, 2, 4}

InitFilter ==
    /\ objects = FilterPool
    /\ \E products \in TuplesUpTo(1..Len(FilterPool), MaxLen) :
           collections = <<products>>
    /\ specs = DemoSpecs
    /\ gens = <<>>
    /\ lastCall = NoCall
    /\ pc = NoScript
    /\ OthersIdle

NextFilter ==
    \/ \E s \in FilterArgs : Filter(1, s)
    \/ \E g \in 1..Len(gens) : FilterLoop(g)

SpecFilter == InitFilter /\ [][NextFilter]_vars

(***************************************************************************)
(* SpecAssoc: a script that combines three attribute specifications both   *)
(* ways, left = (A & B) & C and right = A & (B & C), and then evaluates    *)
(* the two conjunctions on items of the pool.                              *)
(***************************************************************************)
Leaves ==
    {ColorSpecification(c) : c \in Color} \cup {SizeSpecification(z) : z \in Size}

InitAssoc ==
    /\ objects = ItemPool
    /\ collections = <<>>
    /\ \E a, b, c \in Leaves : specs = <<a, b, c>>
    /\ gens = <<>>
    /\ lastCall = NoCall
    /\ pc = [NoScript EXCEPT !.at = "start", !.A = 1, !.B = 2, !.C = 3]
    /\ OthersIdle

\* v = self & other: the script binds the reference returned to its variable v
CombineAB ==
    /\ pc.at = "start"
    /\ And(pc.A, pc.B)
    /\ pc' = [pc EXCEPT !.at = "ab", !.AB = lastCall'.new]

CombineLeft ==
    /\ pc.at = "ab"
    /\ And(pc.AB, pc.C)
    /\ pc' = [pc EXCEPT !.at = "left", !.left = lastCall'.new]

CombineBC ==
    /\ pc.at = "left"
    /\ And(pc.B, pc.C)
    /\ pc' = [pc EXCEPT !.at = "bc", !.BC = lastCall'.new]

CombineRight ==
    /\ pc.at = "bc"
    /\ And(pc.A, pc.BC)
    /\ pc' = [pc EXCEPT !.at = "built", !.right = lastCall'.new]

EvaluateBoth ==
    /\ pc.at = "built"
    /\ \E s \in {pc.left, pc.right}, x \in ObjectIds : IsSatisfied(s, x)

NextAssoc ==
    \/ CombineAB
    \/ CombineLeft
    \/ CombineBC
    \/ CombineRight
    \/ EvaluateBoth

SpecAssoc == InitAssoc /\ [][NextAssoc]_vars

(***************************************************************************)
(* Properties.                                                             *)
(***************************************************************************)
Bools == {"True", "False"}

\* Python's "a and b" on two booleans
PyAnd(a, b) == IF a = "True" THEN b ELSE a

\* the attributes a specification reads, through all its children
RECURSIVE Attrs(_)
Attrs(s) ==
    CASE specs[s].kind = "ColorSpecification" -> {"color"}
      [] specs[s].kind = "SizeSpecification" -> {"size"}
      [] OTHER -> UNION {Attrs(specs[s].specifications[i]) :
                           i \in 1..Len(specs[s].specifications)}

HasAll(s, x) == \A a \in Attrs(s) : HasAttr(objects[x], a)

\* C1: a conjunction of two predicates A and B is satisfied by an item that has
\* every attribute they read exactly when A is satisfied and B is satisfied.
C1_ConjunctionCorrect ==
    \A c \in SpecIds :
        IsAnd(specs, c) /\ Len(specs[c].specifications) = 2 =>
            \A x \in ObjectIds :
                HasAll(c, x) =>
                    /\ Sat(c, x) \in Bools
                    /\ Sat(c, x) = PyAnd(Sat(specs[c].specifications[1], x),
                                         Sat(specs[c].specifications[2], x))
                    /\ (lastCall.op = "is_satisfied" /\ lastCall.self = c
                            /\ lastCall.item = x
                        => lastCall.val = Sat(c, x))

\* a & b of two different predicates was evaluated on an item that satisfies a
\* and not b, and returned False
C1_Witness ==
    /\ lastCall.op = "is_satisfied"
    /\ IsAnd(specs, lastCall.self)
    /\ Len(specs[lastCall.self].specifications) = 2
    /\ HasAll(lastCall.self, lastCall.item)
    /\ specs[lastCall.self].specifications[1] # specs[lastCall.self].specifications[2]
    /\ Sat(specs[lastCall.self].specifications[1], lastCall.item) = "True"
    /\ Sat(specs[lastCall.self].specifications[2], lastCall.item) = "False"
    /\ lastCall.val = "False"

\* the calls a conjunction's is_satisfied, logged at position i, made on its
\* children: the entries one level deeper that follow it before the log
\* returns to its level
ChildCalls(log, i) ==
    LET d == log[i].depth
        ends == {j \in (i + 1)..Len(log) : log[j].depth <= d}
        last == IF ends = {} THEN Len(log)
                ELSE (CHOOSE j \in ends : \A k \in ends : j <= k) - 1
    IN  SelectSeq(SubSeq(log, i + 1, last), LAMBDA e : e.depth = d + 1)

\* C6: a conjunction evaluates its children from the left, one after the other,
\* and evaluates no child to the right of the first one that is not satisfied.
C6_ShortCircuit ==
    lastCall.op = "is_satisfied" =>
        \A i \in 1..Len(lastCall.log) :
            IsAnd(specs, lastCall.log[i].spec) =>
                LET children == specs[lastCall.log[i].spec].specifications
                    calls == ChildCalls(lastCall.log, i)
                    n == Len(calls)
                IN  /\ n <= Len(children)
                    /\ \A m \in 1..n : calls[m].spec = children[m]
                    /\ \A m \in 1..(n - 1) : calls[m].val = "True"
                    /\ n < Len(children) => n >= 1 /\ calls[n].val # "True"

\* a conjunction of two children was evaluated, its first child returned False
\* and the log holds no call on the second
C6_Witness ==
    /\ lastCall.op = "is_satisfied"
    /\ IsAnd(specs, lastCall.self)
    /\ Len(specs[lastCall.self].specifications) = 2
    /\ Len(lastCall.log) = 2
    /\ lastCall.log[2].val = "False"
    /\ lastCall.log[2].spec = specs[lastCall.self].specifications[1]
    /\ Sat(specs[lastCall.self].specifications[2], lastCall.item) # "False"

\* the attribute an attribute predicate reads
AttrOf(s) == IF specs[s].kind = "ColorSpecification" THEN "color" ELSE "size"

\* C7: is_satisfied of a ColorSpecification or SizeSpecification returns a
\* boolean for an item that has the attribute, and raises for an item without it.
C7_TotalAndFailFast ==
    lastCall.op = "is_satisfied" /\ ~IsAnd(specs, lastCall.self) =>
        IF HasAttr(objects[lastCall.item], AttrOf(lastCall.self))
        THEN lastCall.val \in Bools
        ELSE lastCall.val = AttributeError

\* a SizeSpecification was evaluated on an item without a size and raised
C7_Witness ==
    /\ lastCall.op = "is_satisfied"
    /\ specs[lastCall.self].kind = "SizeSpecification"
    /\ ~HasAttr(objects[lastCall.item], "size")
    /\ lastCall.val = AttributeError

\* C10: no step changes a specification that exists, and a & b returns a newly
\* allocated conjunction whose children are a and b, in that order.
C10_PredicatesImmutable ==
    [][/\ Len(specs') >= Len(specs)
       /\ \A s \in SpecIds : specs'[s] = specs[s]
       /\ (lastCall'.op = "__and__" /\ lastCall' # lastCall =>
              /\ lastCall'.new = Len(specs) + 1
              /\ Len(specs') = Len(specs) + 1
              /\ specs'[lastCall'.new] =
                     AndSpecification(<<lastCall'.self, lastCall'.other>>))]_vars

\* c & b was called on a conjunction c and returned a new conjunction
C10_Witness ==
    /\ lastCall.op = "__and__"
    /\ IsAnd(specs, lastCall.self)
    /\ lastCall.new = Len(specs)
    /\ lastCall.new # lastCall.self

\* C4: (A & B) & C and A & (B & C) give the same result on every item, although
\* the two conjunctions are nested differently.
C4_Associative ==
    pc.at = "built" =>
        /\ specs[pc.left].specifications = <<pc.AB, pc.C>>
        /\ specs[pc.right].specifications = <<pc.A, pc.BC>>
        /\ specs[pc.AB].specifications = <<pc.A, pc.B>>
        /\ specs[pc.BC].specifications = <<pc.B, pc.C>>
        /\ \A x \in ObjectIds : Sat(pc.left, x) = Sat(pc.right, x)
        /\ (lastCall.op = "is_satisfied" /\ lastCall.self \in {pc.left, pc.right}
             => /\ lastCall.val = Sat(pc.left, lastCall.item)
                /\ lastCall.val = Sat(pc.right, lastCall.item))

\* A & (B & C) of three different predicates was evaluated on an item that
\* satisfies A and B and not C, and returned False
C4_Witness ==
    /\ pc.at = "built"
    /\ lastCall.op = "is_satisfied"
    /\ lastCall.self = pc.right
    /\ Cardinality({specs[pc.A], specs[pc.B], specs[pc.C]}) = 3
    /\ Sat(pc.A, lastCall.item) = "True"
    /\ Sat(pc.B, lastCall.item) = "True"
    /\ Sat(pc.C, lastCall.item) = "False"
    /\ lastCall.val = "False"

GenIds == 1..Len(gens)
ListOf(g) == collections[gens[g].items]

\* how many times reference x occurs in sequence q
Count(q, x) == Cardinality({i \in 1..Len(q) : q[i] = x})

\* C2: a traversal that ran to its end has yielded every item that satisfies
\* the predicate as many times as the collection holds it, and no other item.
C2_ExactSelection ==
    \A g \in GenIds :
        gens[g].state = "done" =>
            \A x \in ObjectIds :
                Count(gens[g].out, x) =
                    IF Sat(gens[g].spec, x) = "True" THEN Count(ListOf(g), x) ELSE 0

\* a finished traversal yielded the same matching item twice, once for each of
\* its two occurrences in the collection
C2_Witness ==
    \E g \in GenIds :
        /\ gens[g].state = "done"
        /\ Len(gens[g].out) = 2
        /\ gens[g].out[1] = gens[g].out[2]

\* q is a subsequence of r: q is r with some occurrences left out
RECURSIVE IsSubsequence(_, _)
IsSubsequence(q, r) ==
    IF q = <<>> THEN TRUE
    ELSE IF r = <<>> THEN FALSE
    ELSE IF Head(q) = Head(r) THEN IsSubsequence(Tail(q), Tail(r))
    ELSE IsSubsequence(q, Tail(r))

\* C3: what a traversal has yielded is a subsequence of the part of the
\* collection it has gone through: yielded items keep the collection's order.
C3_OrderPreserved ==
    \A g \in GenIds :
        IsSubsequence(gens[g].out, SubSeq(ListOf(g), 1, gens[g].pos))

\* a traversal yielded two different items
C3_Witness ==
    \E g \in GenIds :
        /\ Len(gens[g].out) = 2
        /\ gens[g].out[1] # gens[g].out[2]

\* C5: two calls of filter with the same collection and the same predicate give
\* the same output: traversals that stand at the same place have yielded the
\* same, and two that ended have ended the same way after the same output.
C5_Restartable ==
    \A g1, g2 \in GenIds :
        gens[g1].items = gens[g2].items /\ gens[g1].spec = gens[g2].spec =>
            /\ gens[g1].pos = gens[g2].pos => gens[g1].out = gens[g2].out
            /\ gens[g1].state # "suspended" /\ gens[g2].state # "suspended"
                   => gens[g1] = gens[g2]

\* two traversals of the same arguments both ran to their end and yielded an item
C5_Witness ==
    \E g1, g2 \in GenIds :
        /\ g1 # g2
        /\ gens[g1].items = gens[g2].items
        /\ gens[g1].spec = gens[g2].spec
        /\ gens[g1].state = "done"
        /\ gens[g2].state = "done"
        /\ Len(gens[g1].out) >= 1

\* C8: a traversal ends with an exception exactly when the predicate raises it
\* on the item just taken; no item the traversal went past made the predicate
\* raise, and the exception is the predicate's own.
C8_ErrorsPropagate ==
    \A g \in GenIds :
        /\ gens[g].state = "raised" =>
              /\ gens[g].pos >= 1
              /\ gens[g].error = Sat(gens[g].spec, ListOf(g)[gens[g].pos])
              /\ gens[g].error \notin Bools
        /\ gens[g].state # "raised" => gens[g].error = "None"
        /\ \A i \in 1..gens[g].pos :
              Sat(gens[g].spec, ListOf(g)[i]) \notin Bools =>
                  gens[g].state = "raised" /\ i = gens[g].pos

\* a traversal yielded an item and then ended with the predicate's exception
C8_Witness ==
    \E g \in GenIds :
        /\ gens[g].state = "raised"
        /\ gens[g].error = AttributeError
        /\ Len(gens[g].out) >= 1

\* the references a sequence holds
Range(q) == {q[i] : i \in 1..Len(q)}

\* C9: no step of a traversal changes a collection or an item, and every item
\* yielded is a reference the collection holds.
C9_NoSideEffects ==
    /\ [][collections' = collections /\ objects' = objects]_vars
    /\ [](\A g \in GenIds : Range(gens[g].out) \subseteq Range(ListOf(g)))

\* a traversal of a collection of two items yielded one and ran to its end
C9_Witness ==
    \E g \in GenIds :
        /\ gens[g].state = "done"
        /\ Len(ListOf(g)) = 2
        /\ Len(gens[g].out) = 1

(***************************************************************************)
(* SpecEmpty: a caller that constructs AndSpecification() without          *)
(* arguments, evaluates it on the items of the pool and filters a          *)
(* collection drawn from the pool with it.                                 *)
(***************************************************************************)
InitEmpty ==
    /\ objects = ItemPool
    /\ \E products \in TuplesUpTo(1..Len(ItemPool), MaxLen) :
           collections = <<products>>
    /\ specs = <<>>
    /\ gens = <<>>
    /\ lastCall = NoCall
    /\ pc = NoScript
    /\ OthersIdle

NextEmpty ==
    \/ specs = <<>> /\ NewAndSpecification(<<>>)
    \/ \E s \in SpecIds, x \in ObjectIds : IsSatisfied(s, x)
    \/ \E s \in SpecIds : Filter(1, s)
    \/ \E g \in 1..Len(gens) : FilterLoop(g)

SpecEmpty == InitEmpty /\ [][NextEmpty]_vars

\* C11: a conjunction without children is satisfied by every item, also by one
\* that lacks attributes, and a traversal with it yields every item it takes:
\* the whole collection once it has ended.
C11_EmptyConjunction ==
    \A s \in SpecIds :
        IsAnd(specs, s) /\ specs[s].specifications = <<>> =>
            /\ \A x \in ObjectIds : Sat(s, x) = "True"
            /\ (lastCall.op = "is_satisfied" /\ lastCall.self = s
                    => lastCall.val = "True" /\ Len(lastCall.log) = 1)
            /\ \A g \in GenIds :
                  gens[g].spec = s =>
                      /\ gens[g].state # "raised"
                      /\ gens[g].out = SubSeq(ListOf(g), 1, gens[g].pos)
                      /\ gens[g].state = "done" => gens[g].out = ListOf(g)

\* AndSpecification() was constructed, and a traversal with it of two items, one
\* of them without a color, has ended having yielded both
C11_Witness ==
    \E g \in GenIds :
        /\ specs[gens[g].spec] = AndSpecification(<<>>)
        /\ gens[g].state = "done"
        /\ Len(gens[g].out) = 2
        /\ \E i \in 1..2 : ~HasAttr(objects[gens[g].out[i]], "color")

(***************************************************************************)
(* SpecUniform: filter applied to an attribute specification and to        *)
(* conjunctions nested two and three levels deep.                          *)
(***************************************************************************)
\* 1: size == LARGE, 2: AndSpecification(1), 3: 2 & 2, 4: color == BLUE, 5: 3 & 4
NestedSpecs ==
    <<SizeSpecification(LARGE), AndSpecification(<<1>>), AndSpecification(<<2, 2>>),
      ColorSpecification(BLUE), AndSpecification(<<3, 4>>)>>

\* the specifications handed to filter: the attribute one and the nested ones
UniformArgs == {1, 3, 5}

InitUniform ==
    /\ objects = FilterPool
    /\ \E products \in TuplesUpTo(1..Len(FilterPool), MaxLen) :
           collections = <<products>>
    /\ specs = NestedSpecs
    /\ gens = <<>>
    /\ lastCall = NoCall
    /\ pc = NoScript
    /\ OthersIdle

NextUniform ==
    \/ \E s \in UniformArgs : Filter(1, s)
    \/ \E g \in 1..Len(gens) : FilterLoop(g)

SpecUniform == InitUniform /\ [][NextUniform]_vars

\* specifications s1 and s2 give the same result on every item of the list
AgreeOn(list, s1, s2) == \A i \in 1..Len(list) : Sat(s1, list[i]) = Sat(s2, list[i])

\* C12: two traversals of one collection whose predicates agree on every item of
\* it, whatever their classes and nesting, have yielded the same at the same
\* place and end the same way.
C12_Uniform ==
    \A g1, g2 \in GenIds :
        gens[g1].items = gens[g2].items
        /\ AgreeOn(ListOf(g1), gens[g1].spec, gens[g2].spec) =>
            /\ gens[g1].pos = gens[g2].pos =>
                  gens[g1].out = gens[g2].out /\ gens[g1].error = gens[g2].error
            /\ gens[g1].state # "suspended" /\ gens[g2].state # "suspended" =>
                  /\ gens[g1].pos = gens[g2].pos
                  /\ gens[g1].state = gens[g2].state

\* an attribute specification and the conjunction nested three deep agree on a
\* collection of two items, and both traversals ended having yielded one item
C12_Witness ==
    \E g1, g2 \in GenIds :
        /\ ~IsAnd(specs, gens[g1].spec)
        /\ specs[gens[g2].spec] = AndSpecification(<<3, 4>>)
        /\ AgreeOn(ListOf(g1), gens[g1].spec, gens[g2].spec)
        /\ Len(ListOf(g1)) = 2
        /\ gens[g1].state = "done" /\ gens[g2].state = "done"
        /\ Len(gens[g1].out) = 1 /\ Len(gens[g2].out) = 1

(***************************************************************************)
(* SpecConcurrent: two collections, traversals of either in flight at the  *)
(* same time, resumed in any interleaving.                                 *)
(***************************************************************************)
ConcurrentPool == <<apple, room, noColor>>

\* the second collection: [room, noColor]
OtherProducts == <<2, 3>>

\* large_spec and large_blue_spec of DemoSpecs, shared by the traversals
ConcurrentArgs == {2, 4}

InitConcurrent ==
    /\ objects = ConcurrentPool
    /\ \E products \in TuplesUpTo(1..Len(ConcurrentPool), MaxLen) :
           collections = <<products, OtherProducts>>
    /\ specs = DemoSpecs
    /\ gens = <<>>
    /\ lastCall = NoCall
    /\ pc = NoScript
    /\ OthersIdle

NextConcurrent ==
    \/ \E items \in 1..Len(collections), s \in ConcurrentArgs : Filter(items, s)
    \/ \E g \in 1..Len(gens) : FilterLoop(g)

SpecConcurrent == InitConcurrent /\ [][NextConcurrent]_vars

\* the generator of filter(collections[items], specs[spec]) resumed k times with
\* no other traversal around
RECURSIVE Alone(_, _, _)
Alone(items, spec, k) ==
    IF k = 0 THEN Generator(items, spec)
    ELSE LET G == Alone(items, spec, k - 1)
         IN  IF G.state = "suspended"
             THEN LoopBody(G, collections[items], specs, objects)
             ELSE G

\* C13: whatever the interleaving, each traversal in flight is where the same
\* call stands after as many steps taken alone, and one that ended has ended as
\* it ends alone: same yielded sequence, same exception if any.
C13_Independent ==
    \A g \in GenIds :
        LET G == gens[g]
            n == Len(collections[G.items])
        IN  /\ G.pos <= n
            /\ G.state = "suspended" => G = Alone(G.items, G.spec, G.pos)
            /\ G.state # "suspended" => G = Alone(G.items, G.spec, n + 1)

\* two traversals of different collections share one predicate instance; the
\* later one ran to its end and yielded while the earlier one, having yielded
\* its first item, was still in flight
C13_Witness ==
    \E g1, g2 \in GenIds :
        /\ g1 < g2
        /\ gens[g1].items # gens[g2].items
        /\ gens[g1].spec = gens[g2].spec
        /\ gens[g1].state = "suspended" /\ gens[g1].pos = 1 /\ Len(gens[g1].out) = 1
        /\ gens[g2].state = "done" /\ Len(gens[g2].out) >= 1

(***************************************************************************)
(* SpecFinite: one traversal consumed by a for loop, which resumes the     *)
(* generator until it is exhausted.                                        *)
(***************************************************************************)
NextFinite ==
    \/ \E s \in FilterArgs : gens = <<>> /\ Filter(1, s)
    \/ \E g \in 1..Len(gens) : FilterLoop(g)

\* "for p in product_filter.filter(products, spec):" goes on asking for the next
\* item; nothing in the loop blocks
SpecFinite ==
    /\ InitFilter
    /\ [][NextFinite]_vars
    /\ \A g \in 1..MaxGens : WF_vars(g <= Len(gens) /\ FilterLoop(g))

\* the predicate of traversal g raises on no item of its list
NonRaising(g) ==
    \A i \in 1..Len(ListOf(g)) : Sat(gens[g].spec, ListOf(g)[i]) # AttributeError

\* a step of traversal g evaluates the predicate on the one item after those
\* already evaluated, or finds the list exhausted and ends
OneEvaluation(g) ==
    \/ /\ gens[g].pos < Len(ListOf(g))
       /\ gens'[g].pos = gens[g].pos + 1
       /\ Len(gens'[g].out) <= Len(gens[g].out) + 1
    \/ /\ gens[g].pos = Len(ListOf(g))
       /\ gens'[g] = [gens[g] EXCEPT !.state = "done"]

\* C14: a traversal with a non-raising predicate takes the items one at a time
\* in collection order, each at most once, has never yielded more items than it
\* has evaluated nor evaluated more than the collection holds, and terminates.
C14_Finite ==
    /\ [][\A g \in GenIds : NonRaising(g) /\ gens'[g] # gens[g] => OneEvaluation(g)]_vars
    /\ [](\A g \in GenIds : NonRaising(g) =>
              /\ gens[g].pos <= Len(ListOf(g))
              /\ Len(gens[g].out) <= gens[g].pos)
    /\ \A g \in 1..MaxGens :
          (g <= Len(gens) /\ NonRaising(g))
              ~> (g <= Len(gens) /\ gens[g].state = "done")

\* a traversal of two items with a non-raising predicate has terminated having
\* evaluated both and yielded both
C14_Witness ==
    \E g \in GenIds :
        /\ NonRaising(g)
        /\ Len(ListOf(g)) = 2
        /\ gens[g].state = "done"
        /\ gens[g].pos = 2
        /\ Len(gens[g].out) = 2

(***************************************************************************)
(* SpecDemo: the demonstration's products and specifications, and the      *)
(* conjunction color == RED & size == LARGE.                               *)
(***************************************************************************)
\* products = [apple, tree, room]
DemoProducts == <<apple, tree, room>>

\* 5: ColorSpecification(Color.RED), 6: ColorSpecification(Color.RED) & large_spec
ScenarioSpecs ==
    DemoSpecs \o <<ColorSpecification(RED), AndSpecification(<<5, 2>>)>>

\* green_spec, large_spec, large_blue_spec and the RED & LARGE conjunction
ScenarioArgs == {1, 2, 4, 6}

InitDemo ==
    /\ objects = DemoProducts
    /\ collections = <<[i \in 1..Len(DemoProducts) |-> i]>>
    /\ specs = ScenarioSpecs
    /\ gens = <<>>
    /\ lastCall = NoCall
    /\ pc = NoScript
    /\ OthersIdle

NextDemo ==
    \/ \E s \in ScenarioArgs : Filter(1, s)
    \/ \E g \in 1..Len(gens) : FilterLoop(g)

SpecDemo == InitDemo /\ [][NextDemo]_vars

\* the products a traversal has yielded
Yielded(g) == [i \in 1..Len(gens[g].out) |-> objects[gens[g].out[i]]]

\* C15: over [Apple(RED,SMALL), Tree(GREEN,LARGE), Room(BLUE,LARGE)] the traversal
\* by color == GREEN ends having yielded [Tree], by size == LARGE [Tree, Room],
\* by size == LARGE & color == BLUE [Room], by color == RED & size == LARGE
\* nothing; none of them raises.
C15_Scenario ==
    \A g \in GenIds :
        /\ gens[g].state # "raised"
        /\ gens[g].state = "done" =>
              LET P == specs[gens[g].spec]
              IN  /\ P = ColorSpecification(GREEN) => Yielded(g) = <<tree>>
                  /\ P = SizeSpecification(LARGE) => Yielded(g) = <<tree, room>>
                  /\ P = AndSpecification(<<2, 3>>) => Yielded(g) = <<room>>
                  /\ P = AndSpecification(<<5, 2>>) => Yielded(g) = <<>>

\* the traversal by size == LARGE has ended with two products, and so has the
\* one by color == RED & size == LARGE, with none
C15_Witness ==
    \E g1, g2 \in GenIds :
        /\ specs[gens[g1].spec] = SizeSpecification(LARGE)
        /\ gens[g1].state = "done" /\ Len(gens[g1].out) = 2
        /\ specs[gens[g2].spec] = AndSpecification(<<5, 2>>)
        /\ specs[5] = ColorSpecification(RED)
        /\ gens[g2].state = "done" /\ gens[g2].out = <<>>

(***************************************************************************)
(* Journal (single_responsibility_principle.py).  A string is the sequence *)
(* of its characters.                                                      *)
(***************************************************************************)
Digits == <<"0", "1", "2", "3", "4", "5", "6", "7", "8", "9">>

\* str(n) for n >= 0
RECURSIVE Str(_)
Str(n) == IF n < 10 THEN <<Digits[n + 1]>>
          ELSE Str(n \div 10) \o <<Digits[(n % 10) + 1]>>

\* f"{n}: {t}"
Format(n, t) == Str(n) \o <<":", " ">> \o t

\* ':' in t
HasColon(t) == \E i \in 1..Len(t) : t[i] = ":"

\* t.split(': ', 1)[-1]: what follows the first ': ', or t when there is none
SplitLast(t) ==
    LET at == {i \in 1..(Len(t) - 1) : t[i] = ":" /\ t[i + 1] = " "}
    IN  IF at = {} THEN t
        ELSE LET first == CHOOSE i \in at : \A j \in at : i <= j
             IN  SubSeq(t, first + 2, Len(t))

_reindex(entries) ==
    [i \in 1..Len(entries) |->
        Format(i, IF ~HasColon(entries[i]) THEN entries[i] ELSE SplitLast(entries[i]))]

\* the cap on the number of add_entry calls
MaxAdds == 3

\* the thoughts handed to add_entry: "a", "", ":", "a: b", "7: "
Thoughts ==
    {<<"a">>, <<>>, <<":">>, <<"a", ":", " ", "b">>, <<"7", ":", " ">>}

add_entry(thought) ==
    /\ journal.count < MaxAdds
    /\ LET count == journal.count + 1
       IN  journal' = [count |-> count,
                       entries |-> _reindex(Append(journal.entries,
                                                   Format(count, thought)))]
    /\ UNCHANGED <<ocp, lsp, html, machine>>

\* del entries[index] for an index of the list, counted from the end when negative
Del(entries, index) ==
    LET at == IF index < 0 THEN Len(entries) + index + 1 ELSE index + 1
    IN  SubSeq(entries, 1, at - 1) \o SubSeq(entries, at + 1, Len(entries))

\* a remove_entry that leaves the numbers as they are
remove_entry_as_is(index) ==
    /\ IF index \in -Len(journal.entries)..(Len(journal.entries) - 1)
       THEN journal' = [journal EXCEPT !.entries = Del(@, index)]
       ELSE UNCHANGED journal
    /\ UNCHANGED <<ocp, lsp, html, machine>>

\* an index outside the list makes del raise IndexError before anything changed
remove_entry(index) ==
    /\ IF index \in -Len(journal.entries)..(Len(journal.entries) - 1)
       THEN journal' = [journal EXCEPT !.entries = _reindex(Del(@, index))]
       ELSE UNCHANGED journal
    /\ UNCHANGED <<ocp, lsp, html, machine>>

InitJournal ==
    /\ OcpIdle
    /\ journal = NewJournal
    /\ lsp = NoShape
    /\ html = HtmlLoaded
    /\ machine = MachineLoaded

NextJournal ==
    \/ \E thought \in Thoughts : add_entry(thought)
    \/ \E index \in -(Len(journal.entries) + 1)..Len(journal.entries) :
          remove_entry(index)

SpecJournal == InitJournal /\ [][NextJournal]_vars

\* C16: the entry at list position i (from 0) starts with the number i + 1
\* followed by ": ", however many entries were added and removed before.
C16_Numbered ==
    \A i \in 1..Len(journal.entries) :
        LET e == journal.entries[i]
            n == Len(Str(i)) + 2
        IN  Len(e) >= n /\ SubSeq(e, 1, n) = Str(i) \o <<":", " ">>

\* three entries were added and one of the first two removed: the entry
\* added as number 3 is now second, and an entry holds a thought with ": " in it
C16_Witness ==
    /\ journal.count = 3
    /\ Len(journal.entries) = 2
    /\ \E i \in 1..2 : HasColon(SubSeq(journal.entries[i], 4, Len(journal.entries[i])))

(***************************************************************************)
(* Rectangle, Square and use_rectangle (liskov_substitution_principle.py). *)
(* lsp.rc is the object at hand, lsp.op the last operation on it and       *)
(* lsp.value the value that operation assigned, lsp.report what the last   *)
(* call of use_rectangle printed.                                          *)
(***************************************************************************)
\* int(value): an int is itself, a float is truncated towards zero
int(value) ==
    IF value.half /\ value.floor < 0 THEN value.floor + 1 ELSE value.floor

\* the largest number handed to a constructor or a setter
MaxSide == 10

\* ints from -1 to MaxSide, and the floats -2.5, 2.5 and 9.5
Numbers ==
    {Whole(n) : n \in -1..MaxSide} \cup {AndAHalf(n) : n \in {-3, 2, 9}}

\* Rectangle.__init__(width, height)
Rectangle(width, height) ==
    [cls |-> "Rectangle", _width |-> int(width), _height |-> int(height)]

\* Square.__init__(size): super().__init__(size, size)
Square(size) == [Rectangle(size, size) EXCEPT !.cls = "Square"]

Rectangle_width(rc, value) == [rc EXCEPT !._width = int(value)]

\* a height setter that keeps the sides equal, as Square's does
Rectangle_height_coupled(rc, value) ==
    LET v == int(value) IN [rc EXCEPT !._height = v, !._width = v]

Rectangle_height(rc, value) == [rc EXCEPT !._height = int(value)]

\* a width setter without the coupling
Square_width_inherited(rc, value) == [rc EXCEPT !._width = int(value)]

Square_width(rc, value) ==
    LET v == int(value) IN [rc EXCEPT !._width = v, !._height = v]

\* a height setter without the coupling
Square_height_inherited(rc, value) == [rc EXCEPT !._height = int(value)]

Square_height(rc, value) ==
    LET v == int(value) IN [rc EXCEPT !._height = v, !._width = v]

\* rc.width = value and rc.height = value, dispatched on the class of rc
set_width(rc, value) ==
    IF rc.cls = "Square" THEN Square_width(rc, value) ELSE Rectangle_width(rc, value)

set_height(rc, value) ==
    IF rc.cls = "Square" THEN Square_height(rc, value) ELSE Rectangle_height(rc, value)

area(rc) == rc._width * rc._height

NewRectangle(width, height) ==
    /\ lsp' = [rc |-> Rectangle(width, height), op |-> "__init__",
               value |-> Whole(0), report |-> NoReport]
    /\ UNCHANGED <<ocp, journal, html, machine>>

NewSquare(size) ==
    /\ lsp' = [rc |-> Square(size), op |-> "__init__",
               value |-> size, report |-> NoReport]
    /\ UNCHANGED <<ocp, journal, html, machine>>

SetWidth(value) ==
    /\ lsp.rc.cls # "none"
    /\ lsp' = [lsp EXCEPT !.rc = set_width(@, value), !.op = "width", !.value = value]
    /\ UNCHANGED <<ocp, journal, html, machine>>

SetHeight(value) ==
    /\ lsp.rc.cls # "none"
    /\ lsp' = [lsp EXCEPT !.rc = set_height(@, value), !.op = "height", !.value = value]
    /\ UNCHANGED <<ocp, journal, html, machine>>

\* use_rectangle(rc)
use_rectangle ==
    /\ lsp.rc.cls # "none"
    /\ LET original_width == lsp.rc._width
           rc == set_height(lsp.rc, Whole(10))
           expected_area == original_width * 10
           actual_area == area(rc)
           status == IF actual_area = expected_area THEN "PASS"
                     ELSE "FAIL (LSP violated)"
       IN  lsp' = [rc |-> rc, op |-> "use_rectangle", value |-> Whole(10),
                   report |-> [cls |-> rc.cls, original_width |-> original_width,
                               expected_area |-> expected_area,
                               actual_area |-> actual_area, status |-> status]]
    /\ UNCHANGED <<ocp, journal, html, machine>>

InitShapes ==
    /\ OcpIdle
    /\ journal = NewJournal
    /\ lsp = NoShape
    /\ html = HtmlLoaded
    /\ machine = MachineLoaded

NextShapes ==
    \/ \E width, height \in Numbers : NewRectangle(width, height)
    \/ \E size \in Numbers : NewSquare(size)
    \/ \E value \in Numbers : SetWidth(value)
    \/ \E value \in Numbers : SetHeight(value)
    \/ use_rectangle

SpecShapes == InitShapes /\ [][NextShapes]_vars

\* C17: on a Rectangle, setting the height (by the caller or by use_rectangle)
\* leaves the width as it was and setting the width leaves the height as it
\* was; what use_rectangle reports for a Rectangle is an area of 10 times the
\* original width, and PASS.
C17_RectangleContract ==
    /\ [][lsp.rc.cls = "Rectangle" /\ lsp'.rc.cls = "Rectangle" =>
            /\ lsp'.op \in {"height", "use_rectangle"} =>
                  /\ lsp'.rc._width = lsp.rc._width
                  /\ lsp'.rc._height = int(lsp'.value)
            /\ lsp'.op = "width" =>
                  /\ lsp'.rc._height = lsp.rc._height
                  /\ lsp'.rc._width = int(lsp'.value)]_vars
    /\ [](lsp.report.cls = "Rectangle" =>
              /\ lsp.report.actual_area = lsp.report.original_width * 10
              /\ lsp.report.actual_area = lsp.report.expected_area
              /\ lsp.report.status = "PASS")

\* use_rectangle has run on a Rectangle of width 2 and reported 20 and PASS
C17_Witness ==
    /\ lsp.op = "use_rectangle"
    /\ lsp.report.cls = "Rectangle"
    /\ lsp.report.original_width = 2
    /\ lsp.report.actual_area = 20
    /\ lsp.report.status = "PASS"

C19_SidesAreAssignedValue ==
    lsp.rc.cls = "Square" =>
        /\ lsp.rc._width = lsp.rc._height
        /\ Whole(lsp.rc._width) = lsp.value

\* C19, amended: on a Square width == height, and both equal int() of the value
\* most recently assigned (of the constructor's size if nothing was assigned):
\* the value itself when it is an int, the value truncated towards zero when
\* it is a float.
C19_SidesAreIntOfAssigned ==
    lsp.rc.cls = "Square" =>
        /\ lsp.rc._width = lsp.rc._height
        /\ lsp.rc._width = int(lsp.value)
        /\ ~lsp.value.half => Whole(lsp.rc._width) = lsp.value

\* a Square whose width was last assigned 3: both sides are 3
C19_Witness ==
    /\ lsp.rc.cls = "Square"
    /\ lsp.op = "width"
    /\ lsp.value = Whole(3)
    /\ lsp.rc._width = 3
    /\ lsp.rc._height = 3

(***************************************************************************)
(* HtmlElement and HtmlBuilder (builder.py).  html.elements holds the root *)
(* elements, the first being the class attribute HtmlBuilder.__root; a     *)
(* child is held in its parent's list.  A builder has root_name, and       *)
(* root: its instance attribute __root, 0 while it has none and            *)
(* self.__root finds the class attribute.  added lists the children added  *)
(* through the builder since it was created or last cleared, and cleared   *)
(* tells whether clear() was ever called on it; html.last is the last call *)
(* and html.children the number of children constructed so far.            *)
(***************************************************************************)
indent_size == 2

\* the lines of a rendering: {spaces}<name>, {spaces}text, {spaces}</name>
Open(spaces, name) == [spaces |-> spaces, line |-> "open", of |-> name]
Text(spaces, text) == [spaces |-> spaces, line |-> "text", of |-> text]
Close(spaces, name) == [spaces |-> spaces, line |-> "close", of |-> name]

RECURSIVE Flatten(_)
Flatten(ss) == IF ss = <<>> THEN <<>> ELSE Head(ss) \o Flatten(Tail(ss))

\* HtmlElement.__str(indent), as the sequence of the lines joined
RECURSIVE __str(_, _)
__str(e, indent) ==
    <<Open(indent * indent_size, e.name)>>
    \o (IF e.text # "" THEN <<Text((indent + 1) * indent_size, e.text)>> ELSE <<>>)
    \o Flatten([k \in 1..Len(e.elements) |-> __str(e.elements[k], indent + 1)])
    \o <<Close(indent * indent_size, e.name)>>

\* the element self.__root stands for
__root(b) == IF html.builders[b].root = 0 THEN 1 ELSE html.builders[b].root

\* HtmlBuilder.__str__
BuilderStr(b) == __str(html.elements[__root(b)], 0)

\* the cap on the number of builders created
MaxBuilders == 2
\* the cap on the number of children constructed
MaxAdded == 3

RootNames == {"ul", "p"}
ChildNames == {"li"}
ChildTexts == {"hello", "world"}

\* HtmlElement.create(name): HtmlBuilder(name)
create(name) ==
    /\ Len(html.builders) < MaxBuilders
    /\ html' = [html EXCEPT
                  !.elements[1].name = name,
                  !.builders = Append(@, [root_name |-> name, root |-> 0,
                                          added |-> <<>>, cleared |-> FALSE]),
                  !.last = [op |-> "create", self |-> Len(html.builders) + 1]]
    /\ UNCHANGED <<ocp, journal, lsp, machine>>

add_child(b, child_name, child_text) ==
    /\ html.children < MaxAdded
    /\ html' = [html EXCEPT
                  !.children = @ + 1,
                  !.elements[__root(b)].elements =
                      Append(@, HtmlElement(child_name, child_text)),
                  !.builders[b].added =
                      Append(@, HtmlElement(child_name, child_text)),
                  !.last = [op |-> "add_child", self |-> b]]
    /\ UNCHANGED <<ocp, journal, lsp, machine>>

add_child_fluent(b, child_name, child_text) ==
    /\ html.children < MaxAdded
    /\ html' = [html EXCEPT
                  !.children = @ + 1,
                  !.elements[__root(b)].elements =
                      Append(@, HtmlElement(child_name, child_text)),
                  !.builders[b].added =
                      Append(@, HtmlElement(child_name, child_text)),
                  !.last = [op |-> "add_child_fluent", self |-> b]]
    /\ UNCHANGED <<ocp, journal, lsp, machine>>

\* a clear that only puts the root's name back
clear_name_only(b) ==
    /\ html' = [html EXCEPT
                  !.elements[__root(b)].name = html.builders[b].root_name,
                  !.builders[b].added = <<>>,
                  !.builders[b].cleared = TRUE,
                  !.last = [op |-> "clear", self |-> b]]
    /\ UNCHANGED <<ocp, journal, lsp, machine>>

\* self.__root = HtmlElement(name=self.root_name): an instance attribute.  The
\* element a builder's instance attribute held before is referenced by nothing
\* else, so the new one takes its place.
clear(b) ==
    /\ LET fresh == HtmlElement(html.builders[b].root_name, "")
           at == IF html.builders[b].root = 0 THEN Len(html.elements) + 1
                 ELSE html.builders[b].root
       IN  html' = [html EXCEPT
                      !.elements = IF at > Len(@) THEN Append(@, fresh)
                                   ELSE [@ EXCEPT ![at] = fresh],
                      !.builders[b].root = at,
                      !.builders[b].added = <<>>,
                      !.builders[b].cleared = TRUE,
                      !.last = [op |-> "clear", self |-> b]]
    /\ UNCHANGED <<ocp, journal, lsp, machine>>

InitHtml ==
    /\ OcpIdle
    /\ journal = NewJournal
    /\ lsp = NoShape
    /\ html = HtmlLoaded
    /\ machine = MachineLoaded

BuilderIds == 1..Len(html.builders)

NextHtml ==
    \/ \E name \in RootNames : create(name)
    \/ \E b \in BuilderIds, n \in ChildNames, x \in ChildTexts : add_child(b, n, x)
    \/ \E b \in BuilderIds, n \in ChildNames, x \in ChildTexts : add_child_fluent(b, n, x)
    \/ \E b \in BuilderIds : clear(b)

SpecHtml == InitHtml /\ [][NextHtml]_vars

\* the rendering of an element called name whose children are those listed
Fresh(name, children) == __str([HtmlElement(name, "") EXCEPT !.elements = children], 0)

\* C20: right after clear() a builder renders an element named root_name with
\* no children, whatever was added before; from then on it renders that
\* element with the children added through it since, and no others.
C20_ClearStartsFresh ==
    \A b \in BuilderIds :
        /\ html.last = [op |-> "clear", self |-> b] =>
              BuilderStr(b) = <<Open(0, html.builders[b].root_name),
                                Close(0, html.builders[b].root_name)>>
        /\ html.builders[b].cleared =>
              BuilderStr(b) = Fresh(html.builders[b].root_name, html.builders[b].added)

\* a builder that had a child was cleared and a child was added through it
\* afterwards, while another builder of another name had added a child too
C20_Witness ==
    \E b, c \in BuilderIds :
        /\ b < c
        /\ html.builders[b].cleared
        /\ html.builders[b].root_name # html.builders[c].root_name
        /\ Len(html.builders[b].added) = 1
        /\ ~html.builders[c].cleared
        /\ Len(html.builders[c].added) = 1
        /\ Len(html.elements[1].elements) = 2

\* C21: every builder renders the root name it was created with and the
\* children added through it, and nothing else: what another builder is
\* called or is given does not show, and a new builder has no children.
C21_BuildersIsolated ==
    \A b \in BuilderIds :
        BuilderStr(b) = Fresh(html.builders[b].root_name, html.builders[b].added)

(***************************************************************************)
(* HotDrinkMachine (abstract_factories.py).  machine.factories and         *)
(* machine.initialized are the class attributes; an instance is the record *)
(* of its own attributes, initialized being "absent" while it has none and *)
(* the class attribute is what self.initialized finds.  machine.made       *)
(* counts the factory objects made, machine.last is the last call.         *)
(***************************************************************************)
\* class AvailableDrink(Enum), in definition order: COFFEE = auto(), TEA = auto()
AvailableDrink ==
    <<[name |-> <<"C", "O", "F", "F", "E", "E">>, value |-> 1],
      [name |-> <<"T", "E", "A">>, value |-> 2]>>

Upper ==
    <<"A", "B", "C", "D", "E", "F", "G", "H", "I", "J", "K", "L", "M",
      "N", "O", "P", "Q", "R", "S", "T", "U", "V", "W", "X", "Y", "Z">>
Lower ==
    <<"a", "b", "c", "d", "e", "f", "g", "h", "i", "j", "k", "l", "m",
      "n", "o", "p", "q", "r", "s", "t", "u", "v", "w", "x", "y", "z">>

\* s.lower()
lower(s) ==
    [i \in 1..Len(s) |->
        IF \E k \in 1..Len(Upper) : Upper[k] = s[i]
        THEN Lower[CHOOSE k \in 1..Len(Upper) : Upper[k] = s[i]]
        ELSE s[i]]

\* d.name[0] + d.name[1:].lower()
DrinkName(d) == <<d.name[1]>> \o lower(Tail(d.name))

\* name + "Factory"
FactoryName(name) == name \o <<"F", "a", "c", "t", "o", "r", "y">>

\* eval(factory_name): the class of that name among the module's, or NameError
eval(factory_name) ==
    CASE factory_name = <<"T", "e", "a", "F", "a", "c", "t", "o", "r", "y">> ->
              "TeaFactory"
      [] factory_name = <<"C", "o", "f", "f", "e", "e", "F", "a", "c", "t", "o", "r", "y">> ->
              "CoffeeFactory"
      [] OTHER -> "NameError"

\* factory.prepare(amount): the class of the drink returned
prepare(factory, amount) ==
    IF factory.cls = "TeaFactory" THEN "Tea" ELSE "Coffee"

\* the value of a string of decimal digits
RECURSIVE DigitsValue(_)
DigitsValue(s) ==
    IF s = <<>> THEN 0
    ELSE 10 * DigitsValue(SubSeq(s, 1, Len(s) - 1))
         + (CHOOSE k \in 0..9 : Digits[k + 1] = s[Len(s)])

IsDigits(s) == s # <<>> /\ \A i \in 1..Len(s) : \E k \in 1..10 : Digits[k] = s[i]

\* int(s) for what input() returned: digits with an optional sign, else ValueError
ParseInt(s) ==
    IF IsDigits(s) THEN [ok |-> TRUE, val |-> DigitsValue(s)]
    ELSE IF s # <<>> /\ Head(s) \in {"-", "+"} /\ IsDigits(Tail(s))
         THEN [ok |-> TRUE,
               val |-> IF Head(s) = "-" THEN 0 - DigitsValue(Tail(s))
                       ELSE DigitsValue(Tail(s))]
         ELSE [ok |-> FALSE, val |-> 0]

\* the cap on the number of HotDrinkMachine instances
MaxMachines == 4

\* the "for d in self.AvailableDrink" loop from member d on: one new factory
\* object per member, appended to the list
RECURSIVE Register(_, _, _)
Register(factories, made, d) ==
    IF d > Len(AvailableDrink) THEN factories
    ELSE LET name == DrinkName(AvailableDrink[d])
             factory_instance == [cls |-> eval(FactoryName(name)), id |-> made + 1]
         IN  Register(Append(factories, [name |-> name, factory |-> factory_instance]),
                      made + 1, d + 1)

\* HotDrinkMachine(): self.initialized finds the class attribute, the new
\* instance having none; self.initialized = True binds an instance attribute;
\* self.factories is the class attribute's list.
HotDrinkMachine ==
    /\ Len(machine.instances) < MaxMachines
    /\ LET self == Len(machine.instances) + 1
       IN  IF ~machine.initialized
           THEN machine' = [machine EXCEPT
                    !.instances = Append(@, [initialized |-> "True"]),
                    !.factories = Register(@, machine.made, 1),
                    !.made = @ + Len(AvailableDrink),
                    !.last = [NoDrinkCall EXCEPT !.op = "__init__", !.self = self]]
           ELSE machine' = [machine EXCEPT
                    !.instances = Append(@, [initialized |-> "absent"]),
                    !.last = [NoDrinkCall EXCEPT !.op = "__init__", !.self = self]]
    /\ UNCHANGED <<ocp, journal, lsp, html>>

\* what input() returns to make_drink
PickInputs == {<<"0">>, <<"1">>, <<"2">>, <<"3">>, <<"-", "1">>, <<"x">>}
AmountInputs == {<<"5", "0">>, <<>>}

\* self.make_drink() with the two lines typed at the prompts
make_drink(self, pick, ml) ==
    /\ LET n == Len(machine.factories)
           menu == [i \in 1..n |-> [idx |-> i - 1, name |-> machine.factories[i].name]]
           idx == ParseInt(pick)
           amount == ParseInt(ml)
           at == IF idx.val < 0 THEN n + idx.val + 1 ELSE idx.val + 1
           result ==
               IF ~idx.ok \/ ~amount.ok THEN "ValueError"
               ELSE IF at \notin 1..n THEN "IndexError"
               ELSE prepare(machine.factories[at].factory, amount.val)
       IN  machine' = [machine EXCEPT
                !.last = [op |-> "make_drink", self |-> self, menu |-> menu,
                          top |-> n - 1, idx |-> pick, amount |-> ml,
                          result |-> result]]
    /\ UNCHANGED <<ocp, journal, lsp, html>>

InitMachine ==
    /\ OcpIdle
    /\ OthersIdle

NextMachine ==
    \/ HotDrinkMachine
    \/ \E self \in 1..Len(machine.instances), pick \in PickInputs, ml \in AmountInputs :
          make_drink(self, pick, ml)

SpecMachine == InitMachine /\ [][NextMachine]_vars

\* C22: however many HotDrinkMachine instances were constructed, the factories
\* list holds exactly one entry per AvailableDrink member, and the menu
\* make_drink prints is numbered 0..1.
C22_RegisteredOnce ==
    Len(machine.instances) >= 1 =>
        /\ Len(machine.factories) = Len(AvailableDrink)
        /\ \A d \in 1..Len(AvailableDrink) :
              Cardinality({i \in 1..Len(machine.factories) :
                              machine.factories[i].name = DrinkName(AvailableDrink[d])}) = 1
        /\ machine.last.op = "make_drink" =>
              /\ {machine.last.menu[i].idx : i \in 1..Len(machine.last.menu)} = 0..1
              /\ Len(machine.last.menu) = 2
              /\ machine.last.top = 1

====
